---- MODULE Spec2Model ----
(***************************************************************************)
(* Model of scripts/update_startlists.py: the startlist tracker that       *)
(* fetches race startlists, folds them into a rider-keyed snapshot, diffs  *)
(* it against the snapshot saved by the previous run, appends the change   *)
(* events to a log and writes the presence matrix.                         *)
(*                                                                         *)
(* Python dicts keep insertion order, so a dict is a sequence of           *)
(* [key, value] pairs with distinct keys.  JSON / Python values carry      *)
(* their dynamic type in a "type" field.                                   *)
(***************************************************************************)
EXTENDS Integers, Sequences, FiniteSets, TLC

VARIABLES pc, config, races, startlists, new_snapshot, old_snapshot, changes,
          snapshot_file, changes_file, matrix_file, requests, responses, clock

vars == <<pc, config, races, startlists, new_snapshot, old_snapshot, changes,
          snapshot_file, changes_file, matrix_file, requests, responses, clock>>

(***************************************************************************)
(* Bounds and data domains                                                 *)
(***************************************************************************)
\* longest entrant list one race returns
MaxEntrants == 2
\* number of runs of main in one behaviour
MaxRuns == 2

\* rider urls as procyclingstats returns them; the url is the rider id
RiderUrls == {"rider/a", "rider/b"}
\* display names; "" is what a rider dict without a name yields
Names == {"", "Ann", "Bob"}
RaceNames == {"R1", "R2"}

\* str.__lt__ on the values above: code point order
UrlRank(u) == IF u = "rider/a" THEN 1 ELSE 2
NameRank(n) == IF n = "" THEN 0 ELSE IF n = "Ann" THEN 1 ELSE 2

\* sequences over S of length at most n
SeqsUpTo(S, n) == UNION {[1..k -> S] : k \in 0..n}

RECURSIVE Orderings(_)
\* every order in which iterating a Python set can yield its elements
Orderings(S) ==
    IF S = {} THEN {<<>>}
    ELSE UNION {{<<x>> \o s : s \in Orderings(S \ {x})} : x \in S}

Range(s) == {s[i] : i \in DOMAIN s}

(***************************************************************************)
(* dict operations                                                         *)
(***************************************************************************)
Keys(d) == {d[i].key : i \in DOMAIN d}
Has(d, k) == k \in Keys(d)
\* d[k]
Get(d, k) == d[CHOOSE i \in DOMAIN d : d[i].key = k].value
\* d[k] = v : a new key goes last, an existing key keeps its position
Put(d, k, v) ==
    IF Has(d, k)
    THEN [i \in DOMAIN d |-> IF d[i].key = k THEN [key |-> k, value |-> v] ELSE d[i]]
    ELSE Append(d, [key |-> k, value |-> v])

(***************************************************************************)
(* build_snapshot                                                          *)
(***************************************************************************)
NewRider(rider) == [type |-> "dict", name |-> rider.name, races |-> <<>>]

\* AddEntrant with the race appended only when the rider is new
AddEntrantNewOnly(snapshot, race_name, rider) ==
    LET rider_url == rider.url
    IN IF ~Has(snapshot, rider_url)
       THEN Put(snapshot, rider_url,
                [NewRider(rider) EXCEPT !.races = Append(@, race_name)])
       ELSE snapshot

\* AddEntrant with the name assigned for every entrant
AddEntrantLastSeen(snapshot, race_name, rider) ==
    LET rider_url == rider.url
        s1 == IF ~Has(snapshot, rider_url)
              THEN Put(snapshot, rider_url, NewRider(rider))
              ELSE snapshot
        entry == Get(s1, rider_url)
    IN Put(s1, rider_url, [entry EXCEPT !.name = rider.name,
                                        !.races = Append(@, race_name)])

\* body of the inner loop, lines 155-163
AddEntrant(snapshot, race_name, rider) ==
    LET rider_url == rider.url
        s1 == IF ~Has(snapshot, rider_url)
              THEN Put(snapshot, rider_url, NewRider(rider))
              ELSE snapshot
        entry == Get(s1, rider_url)
    IN Put(s1, rider_url, [entry EXCEPT !.races = Append(@, race_name)])

RECURSIVE AddEntrants(_, _, _)
\* for rider in riders
AddEntrants(snapshot, race_name, riders) ==
    IF riders = <<>> THEN snapshot
    ELSE AddEntrants(AddEntrant(snapshot, race_name, Head(riders)),
                     race_name, Tail(riders))

RECURSIVE AddRaces(_, _)
\* for race_name, riders in startlists.items()
AddRaces(snapshot, items) ==
    IF items = <<>> THEN snapshot
    ELSE AddRaces(AddEntrants(snapshot, Head(items).key, Head(items).value),
                  Tail(items))

build_snapshot(sl) == AddRaces(<<>>, sl)

(***************************************************************************)
(* generate_matrix                                                         *)
(***************************************************************************)
RaceNamesOf(rs) == [i \in DOMAIN rs |-> rs[i].name]

\* rider_races = set(data["races"])
RiderRaces(data) == Range(data.races)

\* MatrixRow counting the entries of the race list, not the distinct races
MatrixRowListCount(data, race_names) ==
    [rider_name |-> data.name,
     cells |-> [r \in Range(race_names) |->
                   IF r \in RiderRaces(data) THEN "X" ELSE ""],
     races_count |-> <<Len(data.races), Len(race_names)>>]

\* one row dict, lines 304-314; races_count is the pair shown as "n/m"
MatrixRow(data, race_names) ==
    [rider_name |-> data.name,
     cells |-> [r \in Range(race_names) |->
                   IF r \in RiderRaces(data) THEN "X" ELSE ""],
     races_count |-> <<Cardinality(RiderRaces(data)), Len(race_names)>>]

\* InsertRow of a sort that is not stable: a row goes before its equals
InsertRowBefore(sorted, row) ==
    LET n == Cardinality({i \in DOMAIN sorted :
                 NameRank(sorted[i].rider_name) < NameRank(row.rider_name)})
    IN SubSeq(sorted, 1, n) \o <<row>> \o SubSeq(sorted, n + 1, Len(sorted))

\* position of a row in list.sort(key=rider_name): sort is stable
InsertRow(sorted, row) ==
    LET n == Cardinality({i \in DOMAIN sorted :
                 NameRank(sorted[i].rider_name) <= NameRank(row.rider_name)})
    IN SubSeq(sorted, 1, n) \o <<row>> \o SubSeq(sorted, n + 1, Len(sorted))

RECURSIVE SortRows(_, _)
SortRows(sorted, rest) ==
    IF rest = <<>> THEN sorted
    ELSE SortRows(InsertRow(sorted, Head(rest)), Tail(rest))

\* csv.DictWriter.writerow: the row's value for each field name in order
CsvRow(row, race_names) ==
    <<row.rider_name>> \o [i \in DOMAIN race_names |-> row.cells[race_names[i]]]
                       \o <<row.races_count>>

\* the content written to MATRIX_FILE
generate_matrix(snapshot, rs) ==
    LET race_names == RaceNamesOf(rs)
        rows == [i \in DOMAIN snapshot |-> MatrixRow(snapshot[i].value, race_names)]
        sorted == SortRows(<<>>, rows)
    IN [exists |-> TRUE,
        header |-> <<"rider_name">> \o race_names \o <<"races_count">>,
        rows |-> [i \in DOMAIN sorted |-> CsvRow(sorted[i], race_names)]]

(***************************************************************************)
(* load_races                                                              *)
(***************************************************************************)
\* dict.get(key) of a missing key, where the values are strings
NoName == "<None>"
\* dict.get(key) of a missing key, where the values are urls
NoUrl == [type |-> "NoneType"]

\* race.get(f) on a race object held as a record
RaceField(race, f, none) == IF f \in DOMAIN race THEN race[f] ELSE none

\* lines 53-56: a or b, a missing field being None
NormalizeRace(race) ==
    [name |-> IF RaceField(race, "race_name", NoName) # NoName
              THEN race.race_name ELSE RaceField(race, "name", NoName),
     url |-> IF RaceField(race, "pcs_url", NoUrl) # NoUrl
             THEN race.pcs_url ELSE RaceField(race, "url", NoUrl)]

\* lines 35-48: the race objects of the configuration, or ValueError
RawRaces(data) ==
    IF data.type = "list" THEN [ok |-> TRUE, races |-> data.items]
    ELSE IF data.type = "dict"
    THEN IF "races" \in DOMAIN data.fields
         THEN [ok |-> TRUE, races |-> data.fields.races]
         ELSE IF "race_name" \in DOMAIN data.fields \/ "name" \in DOMAIN data.fields
         THEN [ok |-> TRUE, races |-> <<data.fields>>]
         ELSE [ok |-> FALSE]
    ELSE [ok |-> FALSE]

\* lines 29-59: the normalized race list, or ValueError
load_races(data) ==
    LET raw == RawRaces(data)
    IN IF raw.ok
       THEN [ok |-> TRUE,
             races |-> [i \in DOMAIN raw.races |-> NormalizeRace(raw.races[i])]]
       ELSE [ok |-> FALSE]

(***************************************************************************)
(* load_previous_snapshot, save_snapshot                                   *)
(***************************************************************************)
NoFile == [exists |-> FALSE]
\* a snapshot file that is not JSON, such as one cut short while written
CorruptFile == [exists |-> TRUE, corrupt |-> TRUE]
\* json.load raises on the file
LoadRaises(file) == file.exists /\ "corrupt" \in DOMAIN file

\* json.dump / json.load keep the keys, their order and the lists
save_snapshot(snapshot) == [exists |-> TRUE, content |-> snapshot]

load_previous_snapshot(file) == IF file.exists THEN file.content ELSE <<>>

(***************************************************************************)
(* compute_changes                                                         *)
(***************************************************************************)
Str(s) == [type |-> "str", val |-> s]
List(l) == [type |-> "list", items |-> l]

\* the value of dict.get(key) for a missing key
PyNone == "<None>"
Falsy(v) == v \in {"", PyNone}
\* a or b
PyOr(a, b) == IF Falsy(a) THEN b ELSE a

\* v.get(f, default) on a dict held as a record
Field(v, f, default) == IF f \in DOMAIN v THEN v[f] ELSE default

\* lines 201-207 and 226-231: file the race under the rider
AddOldRace(normalized_old, rider_url, rider_name, race_name) ==
    LET n1 == IF ~Has(normalized_old, rider_url)
              THEN Put(normalized_old, rider_url,
                       [type |-> "dict", name |-> rider_name, races |-> <<>>])
              ELSE normalized_old
        entry == Get(n1, rider_url)
    IN Put(n1, rider_url, [entry EXCEPT !.races = Append(@, race_name)])

\* lines 190-207: one rider of a race of the wrapped legacy format
AddWrappedRider(normalized_old, race_name, rider) ==
    IF rider.type = "str"
    THEN IF Falsy(rider.val) THEN normalized_old
         ELSE AddOldRace(normalized_old, rider.val, "", race_name)
    ELSE IF rider.type = "dict"
    THEN LET rider_url == Field(rider, "url", Field(rider, "rider_url", ""))
             rider_name == Field(rider, "name", Field(rider, "rider_name", ""))
         IN IF Falsy(rider_url) THEN normalized_old
            ELSE AddOldRace(normalized_old, rider_url, rider_name, race_name)
    ELSE normalized_old

RECURSIVE AddWrappedRiders(_, _, _)
AddWrappedRiders(normalized_old, race_name, riders) ==
    IF riders = <<>> THEN normalized_old
    ELSE AddWrappedRiders(AddWrappedRider(normalized_old, race_name, Head(riders)),
                          race_name, Tail(riders))

RECURSIVE NormalizeWrapped(_, _)
\* lines 188-207: for race_name, riders in old_races_data.items()
NormalizeWrapped(normalized_old, items) ==
    IF items = <<>> THEN normalized_old
    ELSE LET race_name == Head(items).key
             riders == Head(items).value
         IN NormalizeWrapped(
                IF riders.type = "list"
                THEN AddWrappedRiders(normalized_old, race_name, riders.items)
                ELSE normalized_old,
                Tail(items))

RECURSIVE AddListedRiders(_, _, _)
\* lines 225-231: for rider_url in rider_list
AddListedRiders(normalized_old, race_name, rider_list) ==
    IF rider_list = <<>> THEN normalized_old
    ELSE AddListedRiders(
             AddOldRace(normalized_old, Head(rider_list).val, "", race_name),
             race_name, Tail(rider_list))

RECURSIVE NormalizeByRace(_, _)
\* lines 223-231: invert {race_name: [rider_urls]}
NormalizeByRace(normalized_old, items) ==
    IF items = <<>> THEN normalized_old
    ELSE LET race_name == Head(items).key
             rider_list == Head(items).value
         IN NormalizeByRace(
                IF rider_list.type = "list"
                THEN AddListedRiders(normalized_old, race_name, rider_list.items)
                ELSE normalized_old,
                Tail(items))

\* NormalizeOld with the current format not recognised: start fresh
NormalizeOldFresh(old) ==
    IF old = <<>> THEN <<>>
    ELSE IF Has(old, "races") \/ Has(old, "timestamp_utc")
    THEN NormalizeWrapped(<<>>, IF Has(old, "races")
                                THEN Get(old, "races").items ELSE <<>>)
    ELSE LET first_value == old[1].value
         IN IF first_value.type = "list" THEN NormalizeByRace(<<>>, old)
            ELSE <<>>

\* lines 181-234: bring the loaded snapshot to {rider_url: {name, races}}
NormalizeOld(old) ==
    IF old = <<>> THEN <<>>
    ELSE IF Has(old, "races") \/ Has(old, "timestamp_utc")
    THEN NormalizeWrapped(<<>>, IF Has(old, "races")
                                THEN Get(old, "races").items ELSE <<>>)
    ELSE LET first_value == old[1].value
         IN IF first_value.type = "dict" /\ "races" \in DOMAIN first_value
            THEN old
            ELSE IF first_value.type = "str" THEN <<>>
            ELSE IF first_value.type = "list" THEN NormalizeByRace(<<>>, old)
            ELSE <<>>

\* set(snapshot.get(rider_url, {}).get("races", []))
RacesOf(snapshot, rider_url) ==
    IF Has(snapshot, rider_url) THEN Range(Get(snapshot, rider_url).races) ELSE {}

\* snapshot.get(rider_url, {}).get("name")
NameOf(snapshot, rider_url) ==
    IF Has(snapshot, rider_url) THEN Get(snapshot, rider_url).name ELSE PyNone

\* RiderName with the two snapshots looked up in the other order
RiderNameOldFirst(normalized_old, new, rider_url) ==
    PyOr(NameOf(normalized_old, rider_url),
         PyOr(NameOf(new, rider_url), "Unknown"))

\* lines 243-247
RiderName(normalized_old, new, rider_url) ==
    PyOr(NameOf(new, rider_url),
         PyOr(NameOf(normalized_old, rider_url), "Unknown"))

Event(timestamp, race, change_type, rider_name, rider_url) ==
    [timestamp |-> timestamp, race |-> race, change_type |-> change_type,
     rider_name |-> rider_name, rider_url |-> rider_url]

\* RiderChanges with the second loop over the same difference as the first
RiderChangesSwapped(normalized_old, new, rider_url, timestamp) ==
    LET old_races == RacesOf(normalized_old, rider_url)
        new_races == RacesOf(new, rider_url)
        rider_name == RiderName(normalized_old, new, rider_url)
    IN {[i \in DOMAIN added |->
            Event(timestamp, added[i], "ADDED", rider_name, rider_url)]
        \o [i \in DOMAIN removed |->
            Event(timestamp, removed[i], "REMOVED", rider_name, rider_url)] :
          added \in Orderings(new_races \ old_races),
          removed \in Orderings(new_races \ old_races)}

\* lines 240-267 for one rider: the event lists the two set iterations can give
RiderChanges(normalized_old, new, rider_url, timestamp) ==
    LET old_races == RacesOf(normalized_old, rider_url)
        new_races == RacesOf(new, rider_url)
        rider_name == RiderName(normalized_old, new, rider_url)
    IN {[i \in DOMAIN added |->
            Event(timestamp, added[i], "ADDED", rider_name, rider_url)]
        \o [i \in DOMAIN removed |->
            Event(timestamp, removed[i], "REMOVED", rider_name, rider_url)] :
          added \in Orderings(new_races \ old_races),
          removed \in Orderings(old_races \ new_races)}

RECURSIVE VisitRiders(_, _, _, _)
\* for rider_url in all_rider_urls, in the order rider_urls
VisitRiders(normalized_old, new, rider_urls, timestamp) ==
    IF rider_urls = <<>> THEN {<<>>}
    ELSE {first \o rest :
            first \in RiderChanges(normalized_old, new, Head(rider_urls), timestamp),
            rest \in VisitRiders(normalized_old, new, Tail(rider_urls), timestamp)}

\* all_rider_urls is a set of str: the order of its iteration follows the
\* hashes of the process, so every order is a possible outcome
RiderOrders(all_rider_urls) == Orderings(all_rider_urls)

\* compute_changes visiting the riders of the old snapshot only
compute_changes_old_riders(old, new, timestamp) ==
    LET normalized_old == NormalizeOld(old)
        all_rider_urls == Keys(normalized_old)
    IN UNION {VisitRiders(normalized_old, new, order, timestamp) :
                order \in RiderOrders(all_rider_urls)}

\* the lists compute_changes can return
compute_changes(old, new, timestamp) ==
    LET normalized_old == NormalizeOld(old)
        all_rider_urls == Keys(normalized_old) \cup Keys(new)
    IN UNION {VisitRiders(normalized_old, new, order, timestamp) :
                order \in RiderOrders(all_rider_urls)}

(***************************************************************************)
(* append_changes                                                          *)
(***************************************************************************)
ChangesHeader == <<"timestamp", "race", "change_type", "rider_name", "rider_url">>

\* append_changes with the log opened for writing, not for appending
append_changes_overwrite(file, chg) ==
    IF chg = <<>> THEN file
    ELSE [exists |-> TRUE, header |-> ChangesHeader, rows |-> chg]

append_changes(file, chg) ==
    IF chg = <<>> THEN file
    ELSE IF ~file.exists
    THEN [exists |-> TRUE, header |-> ChangesHeader, rows |-> chg]
    ELSE [file EXCEPT !.rows = @ \o chg]

(***************************************************************************)
(* fetch_startlists                                                        *)
(***************************************************************************)
PcsDomain == "https://www.procyclingstats.com/"

\* a url is base \o path \o suffix; lines 84-89 cut the domain and "/startlist"
RacePath(race_url) ==
    IF race_url.base # ""
    THEN [base |-> IF race_url.base = PcsDomain THEN "" ELSE race_url.base,
          path |-> race_url.path, suffix |-> ""]
    ELSE race_url

\* lines 111-122: one element of the library's startlist
RiderOf(rider) ==
    IF rider.type = "obj" THEN <<[name |-> rider.name, url |-> rider.url]>>
    ELSE IF rider.type = "dict"
    THEN <<[name |-> Field(rider, "name", ""), url |-> Field(rider, "url", "")]>>
    ELSE <<>>

RECURSIVE RidersOf(_)
\* lines 109-122
RidersOf(startlist_data) ==
    IF startlist_data = <<>> THEN <<>>
    ELSE RiderOf(Head(startlist_data)) \o RidersOf(Tail(startlist_data))

\* lines 93-138: what is stored for the race, whatever RaceStartlist did
FetchedRiders(response) ==
    IF response.kind = "error" THEN <<>> ELSE RidersOf(response.startlist)

(***************************************************************************)
(* Input domains                                                           *)
(***************************************************************************)
Race1 == [name |-> "R1",
          url |-> [base |-> PcsDomain, path |-> "race/r1/2026", suffix |-> "/startlist"]]
Race2 == [name |-> "R2",
          url |-> [base |-> "", path |-> "race/r2/2026", suffix |-> ""]]

\* race lists with distinct names, in every order
Catalogs == UNION {Orderings(S) : S \in SUBSET {Race1, Race2}}

\* data/races_2026.json in the shapes load_races knows, and some it does not
ConfigList ==
    [type |-> "list", items |->
        <<[race_name |-> Race1.name, pcs_url |-> Race1.url],
          [name |-> Race2.name, url |-> Race2.url]>>]
ConfigWrapped ==
    [type |-> "dict", fields |->
        [races |-> <<[name |-> Race2.name, url |-> Race2.url],
                     [name |-> Race1.name, url |-> Race1.url]>>]]
ConfigSingle ==
    [type |-> "dict", fields |-> [race_name |-> Race1.name, url |-> Race1.url]]
ConfigNoRaces == [type |-> "list", items |-> <<>>]
ConfigOtherDict == [type |-> "dict", fields |-> [season |-> "2026"]]
ConfigString == [type |-> "str", val |-> "races"]
ConfigBadEntry ==
    [type |-> "list", items |->
        <<[name |-> Race1.name, url |-> Race1.url], [season |-> "2026"]>>]
Configs == {ConfigList, ConfigWrapped, ConfigSingle, ConfigNoRaces,
            ConfigOtherDict, ConfigString, ConfigBadEntry}

\* what RaceStartlist(race_path).startlist can hold
LibraryAnn == [type |-> "obj", name |-> "Ann", url |-> "rider/a"]
LibraryBob == [type |-> "obj", name |-> "Bob", url |-> "rider/a"]
LibraryDict == [type |-> "dict", url |-> "rider/b"]
LibraryStr == [type |-> "str", val |-> "rider/b"]

\* what one call of RaceStartlist can do
Responses ==
    {[kind |-> "error"]} \cup
    {[kind |-> "ok", startlist |-> l] :
        l \in {<<>>, <<LibraryAnn>>, <<LibraryDict>>, <<LibraryAnn, LibraryDict>>,
               <<LibraryStr, LibraryBob>>}}

\* the rider dicts fetch_startlists builds
Entrants == [name : Names, url : RiderUrls]

\* startlists as fetch_startlists returns them for the race list rs
StartlistsFor(rs) ==
    {[i \in DOMAIN rs |-> [key |-> rs[i].name, value |-> f[i]]] :
        f \in [DOMAIN rs -> SeqsUpTo(Entrants, MaxEntrants)]}

RaceLists == {<<"R1">>, <<"R2">>, <<"R2", "R1", "R2">>}
RiderData == [type : {"dict"}, name : Names, races : RaceLists]

\* snapshots in the current format
Snapshots ==
    UNION {{[i \in DOMAIN order |-> [key |-> order[i], value |-> f[i]]] :
               f \in [DOMAIN order -> RiderData]} :
           order \in UNION {Orderings(S) : S \in SUBSET RiderUrls}}

\* snapshot files of earlier revisions of the script
LegacyWrapped ==
    <<[key |-> "timestamp_utc", value |-> Str("2026-01-01T00:00:00Z")],
      [key |-> "races", value |-> [type |-> "dict", items |->
          <<[key |-> "R1", value |-> List(<<Str("rider/a"),
                 [type |-> "dict", url |-> "rider/b", name |-> "Bob"]>>)],
            [key |-> "R2", value |-> List(<<[type |-> "dict",
                 rider_url |-> "rider/a", rider_name |-> "Ann"], Str("")>>)]>>]]>>
LegacyNames == <<[key |-> "rider/a", value |-> Str("Ann")]>>
LegacyByRace ==
    <<[key |-> "R1", value |-> List(<<Str("rider/a"), Str("rider/b")>>)],
      [key |-> "R2", value |-> List(<<Str("rider/a")>>)]>>
LegacyOther == <<[key |-> "version", value |-> [type |-> "int", val |-> 1]]>>
LegacySnapshots == {LegacyWrapped, LegacyNames, LegacyByRace, LegacyOther}

\* in the current format: every value is a rider dict with a race list
IsCurrentFormat(snapshot) ==
    \A i \in DOMAIN snapshot :
        /\ snapshot[i].value.type = "dict"
        /\ "races" \in DOMAIN snapshot[i].value

(***************************************************************************)
(* main, one action per statement                                          *)
(***************************************************************************)
Init ==
    /\ pc = "load_races"
    /\ config \in Configs
    /\ races = <<>>
    /\ startlists = <<>>
    /\ new_snapshot = <<>>
    /\ old_snapshot = <<>>
    /\ changes = <<>>
    /\ snapshot_file = NoFile
    /\ changes_file = NoFile
    /\ matrix_file = NoFile
    /\ requests = <<>>
    /\ responses = <<>>
    /\ clock = 1

\* line 343: the configuration is read and normalized
LoadRaces ==
    /\ pc = "load_races"
    /\ load_races(config).ok
    /\ races' = load_races(config).races
    /\ pc' = "fetch"
    /\ UNCHANGED <<config, startlists, new_snapshot, old_snapshot, changes,
                   snapshot_file, changes_file, matrix_file, requests,
                   responses, clock>>

\* lines 46 and 48: ValueError ends the run
LoadRacesFail ==
    /\ pc = "load_races"
    /\ ~load_races(config).ok
    /\ pc' = "crashed"
    /\ UNCHANGED <<config, races, startlists, new_snapshot, old_snapshot,
                   changes, snapshot_file, changes_file, matrix_file,
                   requests, responses, clock>>

\* line 84: race_url is None, AttributeError outside the try ends the run
FetchCrash ==
    /\ pc = "fetch"
    /\ Len(requests) < Len(races)
    /\ races[Len(requests) + 1].url = NoUrl
    /\ pc' = "crashed"
    /\ UNCHANGED <<config, races, startlists, new_snapshot, old_snapshot,
                   changes, snapshot_file, changes_file, matrix_file,
                   requests, responses, clock>>

\* FetchRace with no entry stored for a race whose fetch failed
FetchRaceSkipFailed ==
    /\ pc = "fetch"
    /\ Len(requests) < Len(races)
    /\ races[Len(requests) + 1].url # NoUrl
    /\ LET race == races[Len(requests) + 1]
       IN \E response \in Responses :
            /\ requests' = Append(requests, RacePath(race.url))
            /\ responses' = Append(responses, response.kind)
            /\ startlists' = IF response.kind = "error" THEN startlists
                             ELSE Put(startlists, race.name, FetchedRiders(response))
    /\ UNCHANGED <<config, pc, races, new_snapshot, old_snapshot, changes,
                   snapshot_file, changes_file, matrix_file, clock>>

\* lines 77-141: one iteration of the loop over races
FetchRace ==
    /\ pc = "fetch"
    /\ Len(requests) < Len(races)
    /\ races[Len(requests) + 1].url # NoUrl
    /\ LET race == races[Len(requests) + 1]
       IN \E response \in Responses :
            /\ requests' = Append(requests, RacePath(race.url))
            /\ responses' = Append(responses, response.kind)
            /\ startlists' = Put(startlists, race.name, FetchedRiders(response))
    /\ UNCHANGED <<config, pc, races, new_snapshot, old_snapshot, changes,
                   snapshot_file, changes_file, matrix_file, clock>>

\* line 143
FetchReturn ==
    /\ pc = "fetch"
    /\ Len(requests) = Len(races)
    /\ pc' = "build"
    /\ UNCHANGED <<config, races, startlists, new_snapshot, old_snapshot, changes,
                   snapshot_file, changes_file, matrix_file, requests,
                   responses, clock>>

\* line 354
Build ==
    /\ pc = "build"
    /\ new_snapshot' = build_snapshot(startlists)
    /\ pc' = "load"
    /\ UNCHANGED <<config, races, startlists, old_snapshot, changes, snapshot_file,
                   changes_file, matrix_file, requests, responses, clock>>

\* line 357
LoadPrevious ==
    /\ pc = "load"
    /\ ~LoadRaises(snapshot_file)
    /\ old_snapshot' = load_previous_snapshot(snapshot_file)
    /\ pc' = "diff"
    /\ UNCHANGED <<config, races, startlists, new_snapshot, changes, snapshot_file,
                   changes_file, matrix_file, requests, responses, clock>>

\* line 66: json.load raises, nothing in main catches it
LoadCrash ==
    /\ pc = "load"
    /\ LoadRaises(snapshot_file)
    /\ pc' = "crashed"
    /\ UNCHANGED <<config, races, startlists, new_snapshot, old_snapshot,
                   changes, snapshot_file, changes_file, matrix_file,
                   requests, responses, clock>>

\* line 358
ComputeChanges ==
    /\ pc = "diff"
    /\ changes' \in compute_changes(old_snapshot, new_snapshot, clock)
    /\ pc' = "append"
    /\ UNCHANGED <<config, races, startlists, new_snapshot, old_snapshot,
                   snapshot_file, changes_file, matrix_file, requests,
                   responses, clock>>

\* line 361
AppendChanges ==
    /\ pc = "append"
    /\ changes_file' = append_changes(changes_file, changes)
    /\ pc' = "matrix"
    /\ UNCHANGED <<config, races, startlists, new_snapshot, old_snapshot, changes,
                   snapshot_file, matrix_file, requests, responses, clock>>

\* line 364
GenerateMatrix ==
    /\ pc = "matrix"
    /\ matrix_file' = generate_matrix(new_snapshot, races)
    /\ pc' = "save"
    /\ UNCHANGED <<config, races, startlists, new_snapshot, old_snapshot, changes,
                   snapshot_file, changes_file, requests, responses, clock>>

\* line 367
SaveSnapshot ==
    /\ pc = "save"
    /\ snapshot_file' = save_snapshot(new_snapshot)
    /\ pc' = "done"
    /\ UNCHANGED <<config, races, startlists, new_snapshot, old_snapshot, changes,
                   changes_file, matrix_file, requests, responses, clock>>

\* the next scheduled run of the script: a new process, the files remain
NextRun ==
    /\ pc \in {"done", "crashed"}
    /\ clock < MaxRuns
    /\ clock' = clock + 1
    /\ pc' = "load_races"
    /\ races' = <<>>
    /\ startlists' = <<>>
    /\ new_snapshot' = <<>>
    /\ old_snapshot' = <<>>
    /\ changes' = <<>>
    /\ requests' = <<>>
    /\ responses' = <<>>
    /\ UNCHANGED <<config, snapshot_file, changes_file, matrix_file>>

\* between two runs the stored snapshot is damaged outside the script
DamageSnapshot ==
    /\ pc = "done"
    /\ snapshot_file' = CorruptFile
    /\ UNCHANGED <<config, pc, races, startlists, new_snapshot, old_snapshot,
                   changes, changes_file, matrix_file, requests, responses,
                   clock>>

Next ==
    \/ LoadRaces
    \/ LoadRacesFail
    \/ FetchRace
    \/ FetchCrash
    \/ LoadCrash
    \/ DamageSnapshot
    \/ FetchReturn
    \/ Build
    \/ LoadPrevious
    \/ ComputeChanges
    \/ AppendChanges
    \/ GenerateMatrix
    \/ SaveSnapshot
    \/ NextRun

Spec == Init /\ [][Next]_vars

(***************************************************************************)
(* compute_changes and append_changes on their own: lines 357-361 on any   *)
(* stored snapshot and any new snapshot                                    *)
(***************************************************************************)
SnapshotFiles ==
    {NoFile} \cup {save_snapshot(s) : s \in Snapshots \cup LegacySnapshots}

InitDiff ==
    /\ pc = "load"
    /\ config = ConfigNoRaces
    /\ snapshot_file \in SnapshotFiles
    /\ new_snapshot \in Snapshots
    /\ races = <<>>
    /\ startlists = <<>>
    /\ old_snapshot = <<>>
    /\ changes = <<>>
    /\ changes_file = NoFile
    /\ matrix_file = NoFile
    /\ requests = <<>>
    /\ responses = <<>>
    /\ clock = 1

\* compute_changes called again on the same snapshots by another process
RecomputeChanges ==
    /\ pc = "append"
    /\ changes' \in compute_changes(old_snapshot, new_snapshot, clock)
    /\ UNCHANGED <<config, pc, races, startlists, new_snapshot, old_snapshot,
                   snapshot_file, changes_file, matrix_file, requests,
                   responses, clock>>

NextDiff ==
    \/ LoadPrevious
    \/ ComputeChanges
    \/ RecomputeChanges
    \/ AppendChanges

SpecDiff == InitDiff /\ [][NextDiff]_vars

(***************************************************************************)
(* build_snapshot and generate_matrix on their own: lines 354 and 364 on   *)
(* any startlists fetch_startlists can return                              *)
(***************************************************************************)
InitMatrix ==
    /\ pc = "build"
    /\ config = ConfigNoRaces
    /\ races \in Catalogs
    /\ startlists \in StartlistsFor(races)
    /\ new_snapshot = <<>>
    /\ old_snapshot = <<>>
    /\ changes = <<>>
    /\ snapshot_file = NoFile
    /\ changes_file = NoFile
    /\ matrix_file = NoFile
    /\ requests = <<>>
    /\ responses = <<>>
    /\ clock = 1

ApplyBuild ==
    /\ pc = "build"
    /\ new_snapshot' = build_snapshot(startlists)
    /\ pc' = "project"
    /\ UNCHANGED <<config, races, startlists, old_snapshot, changes, snapshot_file,
                   changes_file, matrix_file, requests, responses, clock>>

ApplyMatrix ==
    /\ pc = "project"
    /\ matrix_file' = generate_matrix(new_snapshot, races)
    /\ pc' = "projected"
    /\ UNCHANGED <<config, races, startlists, new_snapshot, old_snapshot, changes,
                   snapshot_file, changes_file, requests, responses, clock>>

NextMatrix ==
    \/ ApplyBuild
    \/ ApplyMatrix

SpecMatrix == InitMatrix /\ [][NextMatrix]_vars

(***************************************************************************)
(* Properties of compute_changes, checked under SpecDiff                   *)
(***************************************************************************)
\* the (rider, race) pairs a current-format snapshot holds
Pairs(snapshot) ==
    UNION {{<<snapshot[i].key, snapshot[i].value.races[j]>> :
               j \in 1..Len(snapshot[i].value.races)} : i \in DOMAIN snapshot}

\* number of events of one kind for one (rider, race) pair
EventCount(kind, pair) ==
    Cardinality({i \in DOMAIN changes :
        /\ changes[i].change_type = kind
        /\ changes[i].rider_url = pair[1]
        /\ changes[i].race = pair[2]})

AllPairs == RiderUrls \X RaceNames

\* compute_changes has returned
Computed == pc \in {"append", "matrix"}

\* C1: for snapshots in the current format compute_changes returns exactly
\* one ADDED event per (rider, race) pair in new but not in old, exactly one
\* REMOVED event per pair in old but not in new, and no other event.
C1_ExactDiff ==
    (Computed /\ IsCurrentFormat(old_snapshot)) =>
        LET added == Pairs(new_snapshot) \ Pairs(old_snapshot)
            removed == Pairs(old_snapshot) \ Pairs(new_snapshot)
        IN /\ \A pair \in AllPairs :
                /\ EventCount("ADDED", pair) = IF pair \in added THEN 1 ELSE 0
                /\ EventCount("REMOVED", pair) = IF pair \in removed THEN 1 ELSE 0
           /\ Len(changes) = Cardinality(added) + Cardinality(removed)

\* Scenario B and more: a rider moved from one race to another while another
\* rider was dropped
C1_Witness ==
    /\ Computed
    /\ IsCurrentFormat(old_snapshot)
    /\ <<"rider/a", "R1">> \in Pairs(old_snapshot) \ Pairs(new_snapshot)
    /\ <<"rider/a", "R2">> \in Pairs(new_snapshot) \ Pairs(old_snapshot)
    /\ Has(old_snapshot, "rider/b") /\ ~Has(new_snapshot, "rider/b")
    /\ Len(changes) >= 3

\* C2: diffing a snapshot against itself returns the empty list, and nothing
\* is appended to the change log.
C2_NoSelfDiff ==
    (Computed /\ old_snapshot = new_snapshot) =>
        /\ changes = <<>>
        /\ changes_file = NoFile

C2_Witness ==
    /\ pc = "matrix"
    /\ old_snapshot = new_snapshot
    /\ Len(new_snapshot) = 2
    /\ changes = <<>>

\* C3: on a first run (no snapshot file) the diff holds exactly one ADDED
\* event per (rider, race) pair of the new snapshot and no REMOVED event.
C3_FirstRunAllAdded ==
    (Computed /\ ~snapshot_file.exists) =>
        /\ \A i \in DOMAIN changes : changes[i].change_type = "ADDED"
        /\ \A pair \in AllPairs :
              EventCount("ADDED", pair) = IF pair \in Pairs(new_snapshot) THEN 1 ELSE 0
        /\ Len(changes) = Cardinality(Pairs(new_snapshot))

C3_Witness ==
    /\ Computed
    /\ ~snapshot_file.exists
    /\ Cardinality(Pairs(new_snapshot)) >= 3
    /\ Len(changes) >= 3

\* the name a snapshot records for a rider, "" when it records none
RecordedName(snapshot, rider_url) ==
    LET hits == {i \in DOMAIN snapshot : snapshot[i].key = rider_url}
    IN IF hits = {} THEN "" ELSE snapshot[CHOOSE i \in hits : TRUE].value.name

\* C8 as stated: every event carries the name from the new snapshot whenever
\* the rider is in the new snapshot, else the name of the old snapshot when
\* the rider is there, and "Unknown" only when the rider is in neither.
C8_NameFromNewIfPresent ==
    (Computed /\ IsCurrentFormat(old_snapshot)) =>
        \A i \in DOMAIN changes :
            LET rider_url == changes[i].rider_url
            IN changes[i].rider_name =
                 IF Has(new_snapshot, rider_url)
                 THEN RecordedName(new_snapshot, rider_url)
                 ELSE IF Has(old_snapshot, rider_url)
                 THEN RecordedName(old_snapshot, rider_url)
                 ELSE "Unknown"

\* C8 amended: every event carries the non-empty name of the new snapshot,
\* else the non-empty name of the (normalized) old snapshot, else "Unknown".
C8_FirstNonEmptyName ==
    Computed =>
        \A i \in DOMAIN changes :
            LET rider_url == changes[i].rider_url
                new_name == RecordedName(new_snapshot, rider_url)
                old_name == RecordedName(NormalizeOld(old_snapshot), rider_url)
            IN changes[i].rider_name =
                 IF new_name # "" THEN new_name
                 ELSE IF old_name # "" THEN old_name
                 ELSE "Unknown"

\* a rider renamed between the snapshots, one whose new name is empty and
\* one with no name at all
C8_Witness ==
    /\ Computed
    /\ \E i, j \in DOMAIN changes :
          /\ changes[i].rider_url = "rider/a"
          /\ RecordedName(new_snapshot, "rider/a") = ""
          /\ Has(new_snapshot, "rider/a")
          /\ changes[i].rider_name = "Bob"
          /\ changes[j].rider_url = "rider/b"
          /\ Has(old_snapshot, "rider/b")
          /\ RecordedName(old_snapshot, "rider/b") = "Bob"
          /\ changes[j].rider_name = "Ann"

\* C9: two invocations of compute_changes on the same snapshots return the
\* events in the same order.
C9_SameOrder ==
    [][(pc = "append" /\ pc' = "append") => changes' = changes]_vars

(***************************************************************************)
(* Properties of build_snapshot and generate_matrix, checked under         *)
(* SpecMatrix                                                              *)
(***************************************************************************)
RECURSIVE Flat(_)
\* the entrants of all races in the order build_snapshot meets them
Flat(items) ==
    IF items = <<>> THEN <<>>
    ELSE [i \in DOMAIN Head(items).value |->
             [race |-> Head(items).key, name |-> Head(items).value[i].name,
              url |-> Head(items).value[i].url]]
         \o Flat(Tail(items))

\* the riders entered in the race called race_name
EntrantUrls(race_name) ==
    {e.url : e \in {x \in Range(Flat(startlists)) : x.race = race_name}}

\* the races a rider is entered in
RacesEntered(rider_url) ==
    {e.race : e \in {x \in Range(Flat(startlists)) : x.url = rider_url}}

\* positions of a rider's entries among all entrants
Appearances(rider_url) ==
    {i \in DOMAIN Flat(startlists) : Flat(startlists)[i].url = rider_url}

FirstAppearance(rider_url) ==
    CHOOSE i \in Appearances(rider_url) : \A j \in Appearances(rider_url) : i <= j

LastAppearance(rider_url) ==
    CHOOSE i \in Appearances(rider_url) : \A j \in Appearances(rider_url) : j <= i

\* position of a rider in the snapshot dict
SnapshotIndex(rider_url) ==
    CHOOSE i \in DOMAIN new_snapshot : new_snapshot[i].key = rider_url

\* the riders of the snapshot by display name, then by position in the dict
ByNameThenInsertion ==
    CHOOSE order \in Orderings(Keys(new_snapshot)) :
        \A i, j \in DOMAIN order : i < j =>
            LET ni == NameRank(Get(new_snapshot, order[i]).name)
                nj == NameRank(Get(new_snapshot, order[j]).name)
            IN \/ ni < nj
               \/ ni = nj /\ SnapshotIndex(order[i]) < SnapshotIndex(order[j])

\* the riders of the snapshot by display name, then by rider url
ByNameThenUrl ==
    CHOOSE order \in Orderings(Keys(new_snapshot)) :
        \A i, j \in DOMAIN order : i < j =>
            LET ni == NameRank(Get(new_snapshot, order[i]).name)
                nj == NameRank(Get(new_snapshot, order[j]).name)
            IN \/ ni < nj
               \/ ni = nj /\ UrlRank(order[i]) < UrlRank(order[j])

\* the csv row the snapshot calls for: name, one cell per race, the count
ExpectedRow(rider_url) ==
    LET data == Get(new_snapshot, rider_url)
        attended == {i \in DOMAIN races :
                        \E j \in DOMAIN data.races : data.races[j] = races[i].name}
    IN <<data.name>>
       \o [i \in DOMAIN races |-> IF i \in attended THEN "X" ELSE ""]
       \o <<<<Cardinality(attended), Len(races)>>>>

Projected == pc = "projected"

\* C4: after build_snapshot and generate_matrix there is one row per rider
\* and the row has an X in column i iff the rider is among the entrants of
\* races[i]; every race is a column, also one without entrants.
C4_RoundTrip ==
    Projected =>
        /\ matrix_file.header =
              <<"rider_name">> \o [i \in DOMAIN races |-> races[i].name]
                               \o <<"races_count">>
        /\ Len(matrix_file.rows) = Cardinality({e.url : e \in Range(Flat(startlists))})
        /\ Len(ByNameThenInsertion) = Len(matrix_file.rows)
        /\ \A k \in DOMAIN matrix_file.rows :
              /\ Len(matrix_file.rows[k]) = Len(races) + 2
              /\ \A i \in DOMAIN races :
                    /\ matrix_file.rows[k][1 + i] \in {"X", ""}
                    /\ matrix_file.rows[k][1 + i] = "X"
                          <=> ByNameThenInsertion[k] \in EntrantUrls(races[i].name)

\* a race without entrants next to a race with two riders
C4_Witness ==
    /\ Projected
    /\ Len(races) = 2
    /\ EntrantUrls(races[1].name) = {}
    /\ Len(matrix_file.rows) = 2
    /\ \E k \in DOMAIN matrix_file.rows : matrix_file.rows[k][3] = "X"

\* C5: in every matrix row the attended number equals the number of X cells
\* of the row and the total equals the length of the race list.
C5_CountInvariant ==
    Projected =>
        \A k \in DOMAIN matrix_file.rows :
            LET row == matrix_file.rows[k]
                count == row[Len(races) + 2]
            IN /\ count[1] = Cardinality({i \in DOMAIN races : row[1 + i] = "X"})
               /\ count[2] = Len(races)

\* a rider listed twice in one race and once in the other, next to a rider
\* in one race only
C5_Witness ==
    /\ Projected
    /\ Len(races) = 2
    /\ \E k, l \in DOMAIN matrix_file.rows :
          /\ matrix_file.rows[k][4] = <<2, 2>>
          /\ matrix_file.rows[l][4] = <<1, 2>>
    /\ \E i \in DOMAIN new_snapshot : Len(new_snapshot[i].value.races) = 3

\* C6 as stated: rows ascend by display name and, for equal names, by rider
\* url, whatever the order of the riders in the snapshot.
C6_ByNameThenUrl ==
    Projected =>
        matrix_file.rows = [k \in DOMAIN ByNameThenUrl |-> ExpectedRow(ByNameThenUrl[k])]

\* C6 amended: rows ascend by display name; riders with equal names stay in
\* the order in which the snapshot holds them.
C6_ByNameThenInsertion ==
    Projected =>
        matrix_file.rows =
            [k \in DOMAIN ByNameThenInsertion |-> ExpectedRow(ByNameThenInsertion[k])]

\* two riders of one name with different rows, the later url inserted first
C6_Witness ==
    /\ Projected
    /\ Len(new_snapshot) = 2
    /\ new_snapshot[1].key = "rider/b"
    /\ new_snapshot[1].value.name = new_snapshot[2].value.name
    /\ matrix_file.rows[1] # matrix_file.rows[2]

Built == pc \in {"project", "projected"}

\* every race a rider is entered in is in the rider's race set
AllRacesRecorded ==
    /\ Keys(new_snapshot) = {e.url : e \in Range(Flat(startlists))}
    /\ \A i \in DOMAIN new_snapshot :
          {new_snapshot[i].value.races[j] : j \in DOMAIN new_snapshot[i].value.races}
              = RacesEntered(new_snapshot[i].key)

\* C7 as stated: the snapshot stores for a rider the name of the last
\* entrant processed, and holds every race the rider is entered in.
C7_LastSeenName ==
    Built =>
        /\ AllRacesRecorded
        /\ \A i \in DOMAIN new_snapshot :
              new_snapshot[i].value.name =
                  Flat(startlists)[LastAppearance(new_snapshot[i].key)].name

\* C7 amended: the snapshot stores for a rider the name of the first entrant
\* processed, and holds every race the rider is entered in.
C7_FirstSeenName ==
    Built =>
        /\ AllRacesRecorded
        /\ \A i \in DOMAIN new_snapshot :
              new_snapshot[i].value.name =
                  Flat(startlists)[FirstAppearance(new_snapshot[i].key)].name

\* a rider entered in two races under two names
C7_Witness ==
    /\ Built
    /\ \E i \in DOMAIN new_snapshot :
          /\ RacesEntered(new_snapshot[i].key) = RaceNames
          /\ Flat(startlists)[FirstAppearance(new_snapshot[i].key)].name = "Ann"
          /\ Flat(startlists)[LastAppearance(new_snapshot[i].key)].name = "Bob"
          /\ new_snapshot[i].value.name = "Ann"

(***************************************************************************)
(* Properties of fetch_startlists, checked under Spec                      *)
(***************************************************************************)
\* C10: a failed fetch is recorded as zero entrants for the race; every
\* race is requested, in catalog order, and has an entry in the mapping, so
\* that the snapshot is built from all of them.
C10_EveryRaceFetched ==
    /\ Len(responses) = Len(requests)
    /\ Len(startlists) = Len(requests)
    /\ Len(requests) <= Len(races)
    /\ \A i \in DOMAIN requests :
          /\ requests[i].path = races[i].url.path
          /\ startlists[i].key = races[i].name
          /\ responses[i] = "error" => startlists[i].value = <<>>
    /\ (pc # "fetch" /\ \A i \in DOMAIN races : races[i].url # NoUrl)
          => Len(requests) = Len(races)
    /\ pc \in {"load", "diff", "append", "matrix", "save", "done"} =>
          Keys(new_snapshot) =
              UNION {{startlists[i].value[j].url : j \in DOMAIN startlists[i].value} :
                        i \in DOMAIN startlists}

\* the first race failed, the second was fetched and the snapshot was built
C10_Witness ==
    /\ pc = "load"
    /\ Len(races) = 2
    /\ responses[1] = "error"
    /\ responses[2] = "ok"
    /\ startlists[2].value # <<>>
    /\ new_snapshot # <<>>

(***************************************************************************)
(* Properties of main, checked under Spec                                  *)
(***************************************************************************)
\* C11: a corrupt prior snapshot is not fatal: the run takes the prior state
\* as empty, as a first run does, and goes on to the diff.
C11_CorruptSnapshotAsFirstRun ==
    [][(pc = "load" /\ LoadRaises(snapshot_file))
          => (pc' = "diff" /\ old_snapshot' = <<>>)]_vars

\* the race objects a configuration holds, <<>> when it holds none
ConfiguredEntries ==
    IF config.type = "list" THEN config.items
    ELSE IF config.type = "dict" /\ "races" \in DOMAIN config.fields
    THEN config.fields.races
    ELSE IF config.type = "dict" THEN <<config.fields>>
    ELSE <<>>

\* neither a list nor an object with a races key or direct race fields
BadTopLevel ==
    /\ config.type # "list"
    /\ ~(/\ config.type = "dict"
         /\ DOMAIN config.fields \cap {"races", "race_name", "name"} # {})

\* a race entry with neither a name nor a source locator
BadEntry(race) ==
    DOMAIN race \cap {"race_name", "name", "pcs_url", "url"} = {}

Malformed ==
    \/ BadTopLevel
    \/ \E i \in DOMAIN ConfiguredEntries : BadEntry(ConfiguredEntries[i])

\* C12: with a malformed configuration load_races fails, no race is fetched
\* and neither the change log nor the matrix nor the snapshot is written.
C12_MalformedConfigAborts ==
    Malformed =>
        /\ pc \in {"load_races", "crashed"}
        /\ races = <<>>
        /\ requests = <<>>
        /\ changes_file = NoFile
        /\ matrix_file = NoFile
        /\ snapshot_file = NoFile

RECURSIVE Replay(_, _)
\* the pairs left when the events are applied in order to the set pairs
Replay(pairs, events) ==
    IF events = <<>> THEN pairs
    ELSE LET e == Head(events)
             pair == <<e.rider_url, e.race>>
         IN Replay(IF e.change_type = "ADDED" THEN pairs \cup {pair}
                   ELSE IF e.change_type = "REMOVED" THEN pairs \ {pair}
                   ELSE pairs,
                   Tail(events))

LoggedEvents == IF changes_file.exists THEN changes_file.rows ELSE <<>>

\* the log replayed from the empty state gives the saved snapshot
ReplayGivesSnapshot ==
    pc = "done" =>
        /\ snapshot_file.exists
        /\ ~LoadRaises(snapshot_file) =>
              Replay({}, LoggedEvents) = Pairs(snapshot_file.content)

\* the snapshot is written by the last step of a run only: the changes are
\* in the log, the matrix of the new snapshot is written, and the file
\* holds the new snapshot and nothing of the one before
SavedLast ==
    (snapshot_file' # snapshot_file /\ ~LoadRaises(snapshot_file')) =>
        /\ pc = "save" /\ pc' = "done"
        /\ changes # <<>> =>
              /\ Len(LoggedEvents) >= Len(changes)
              /\ SubSeq(LoggedEvents, Len(LoggedEvents) - Len(changes) + 1,
                        Len(LoggedEvents)) = changes
        /\ matrix_file.exists
        /\ Len(matrix_file.rows) = Len(new_snapshot)
        /\ snapshot_file'.exists
        /\ snapshot_file'.content = new_snapshot
        /\ changes_file' = changes_file
        /\ matrix_file' = matrix_file

\* C13: after runs that complete, starting with no snapshot and no log, the
\* change log replayed from the empty state gives the pairs of the saved
\* snapshot; the snapshot is saved after the changes were appended and the
\* matrix written, and replaces the previous one.
C13_LogReplaysToSnapshot ==
    []ReplayGivesSnapshot /\ [][SavedLast]_vars

\* a second run done, with riders added in the first and removed in the second
C13_Witness ==
    /\ pc = "done"
    /\ clock = 2
    /\ ~LoadRaises(snapshot_file)
    /\ snapshot_file.content # <<>>
    /\ \E i, j, k \in DOMAIN LoggedEvents :
          /\ LoggedEvents[i].timestamp = 1
          /\ LoggedEvents[i].change_type = "ADDED"
          /\ LoggedEvents[j].timestamp = 2
          /\ LoggedEvents[j].change_type = "REMOVED"
          /\ LoggedEvents[j].rider_url = LoggedEvents[i].rider_url
          /\ LoggedEvents[j].race = LoggedEvents[i].race
          /\ LoggedEvents[k].timestamp = 2
          /\ LoggedEvents[k].change_type = "ADDED"

====
